---------------------------- MODULE Spec2Model ----------------------------
(***************************************************************************)
(* Model of src/src/esd_data/dataset.py: the DSE dataset class.            *)
(*                                                                         *)
(* numpy arrays are records [shape, data] with data the elements in        *)
(* row-major (C) order, indices 0-based as in the source.  Python dicts    *)
(* are records [keys, map] with keys the insertion order.  The objects the *)
(* code mutates through references (the SatelliteMetadata objects of a     *)
(* TileMetadata) live in a heap indexed by address; a list is a value with *)
(* an identity tag, since the code never mutates a list in place.          *)
(***************************************************************************)
EXTENDS Integers, Sequences, FiniteSets, TLC

VARIABLES
    tiles,            \* self.tiles: the enumerated file names, in order
    selected_bands,   \* self.selected_bands: None or dict source -> band list
    transform,        \* self.transform: None or the name of a callable
    disk,             \* what the files of root_dir hold (read by the loader)
    last,             \* the last completed call of a single caller
    workers           \* call frames of the concurrent callers

vars == <<tiles, selected_bands, transform, disk, last, workers>>

---------------------------------------------------------------------------
(* Bounds of the model *)

MaxSel == 2        \* longest band list of a selection config
NTime == 2         \* time steps of the sentinel1 and sentinel2 stacks
Height == 2        \* subtile height
Width == 2         \* subtile width
MaxTiles == 2      \* most files enumerated (lookup specification)
NWorkers == 2      \* concurrent callers (workers specification)

---------------------------------------------------------------------------
(* Generic helpers *)

Range(s) == {s[i] : i \in DOMAIN s}

RECURSIVE Product(_)
Product(s) == IF s = <<>> THEN 1 ELSE Head(s) * Product(Tail(s))

SeqsUpTo(S, n) == UNION {[1..k -> S] : k \in 0..n}

DistinctSeqsUpTo(S, n) ==
    {s \in SeqsUpTo(S, n) : \A a, b \in DOMAIN s : a # b => s[a] # s[b]}

\* Optional values (None or a value)
NoneVal == [none |-> TRUE]
Some(v) == [none |-> FALSE, val |-> v]

\* Python dict: insertion-ordered keys and the mapping
EmptyDict == [keys |-> <<>>, map |-> <<>>]
DictHas(d, k) == k \in Range(d.keys)
DictSet(d, k, v) ==
    IF DictHas(d, k)
    THEN [d EXCEPT !.map[k] = v]
    ELSE [keys |-> Append(d.keys, k),
          map  |-> [x \in Range(d.keys) \cup {k} |->
                        IF x = k THEN v ELSE d.map[x]]]

RECURSIVE DictFromPairs(_)
DictFromPairs(ps) ==
    IF ps = <<>> THEN EmptyDict
    ELSE LET n == Len(ps)
         IN  DictSet(DictFromPairs(SubSeq(ps, 1, n - 1)), ps[n][1], ps[n][2])

---------------------------------------------------------------------------
(* numpy arrays *)

Array(shape, data) == [shape |-> shape, data |-> data]

\* X = list(): an empty Python list; len(X) == 0
EmptyList == Array(<<0>>, <<>>)

\* element [t, b, y, x] of a 4-axis array, [r, y, x] of a 3-axis array
At4(a, t, b, y, x) ==
    a.data[((t * a.shape[2] + b) * a.shape[3] + y) * a.shape[4] + x + 1]
At3(a, r, y, x) ==
    a.data[(r * a.shape[2] + y) * a.shape[3] + x + 1]

\* a[:, indices, :, :] with indices a list of 0-based positions on axis 1
Take4(a, indices) ==
    LET T == a.shape[1]
        K == Len(indices)
        H == a.shape[3]
        W == a.shape[4]
    IN  Array(<<T, K, H, W>>,
              [n \in 1..(T * K * H * W) |->
                  LET m == n - 1
                      x == m % W
                      y == (m \div W) % H
                      k == (m \div (W * H)) % K
                      t == m \div (W * H * K)
                  IN  At4(a, t, indices[k + 1], y, x)])

\* np.reshape(a, shape): same elements in row-major order
Reshape(a, shape) == Array(shape, a.data)

\* np.concatenate((a, b)) along axis 0; ValueError unless the arrays have the
\* same number of axes and the same sizes on every other axis
ConcatenateOk(a, b) ==
    /\ Len(a.shape) = Len(b.shape)
    /\ Tail(a.shape) = Tail(b.shape)
Concatenate(a, b) ==
    Array(<<a.shape[1] + b.shape[1]>> \o Tail(a.shape), a.data \o b.data)

\* mutant: np.squeeze(a), which drops every axis of size 1
NotOne(n) == n # 1
SqueezeAll(a) == Array(SelectSeq(a.shape, NotOne), a.data)

\* np.squeeze(a, axis=0); ValueError unless axis 0 has size 1
SqueezeOk(a) == a.shape[1] = 1
Squeeze0(a) == Array(Tail(a.shape), a.data)

\* a - 1, elementwise
MinusOne(a) == Array(a.shape, [n \in DOMAIN a.data |-> a.data[n] - 1])

---------------------------------------------------------------------------
(* The files of root_dir and the external loader Subtile().load *)

Npz == <<".", "n", "p", "z">>
TileName(a, b, c) ==
    <<"T", "i", "l", "e">> \o a \o <<"_">> \o b \o <<"_">> \o c \o Npz

\* the file names a directory may hold; every one ends in .npz (the glob)
AllNames ==
    << TileName(<<"1">>, <<"0">>, <<"0">>),
       TileName(<<"1">>, <<"0">>, <<"1">>),
       TileName(<<"0", "1">>, <<"0">>, <<"0">>),
       TileName(<<"2">>, <<"1">>, <<"0">>),
       <<"n", "o", "t", "e", "s">> \o Npz,
       TileName(<<"1">>, <<"0">>, <<"1", "1", "n", "p", "z">>) >>
FileNames == Range(AllNames)
FileCode(name) == CHOOSE i \in DOMAIN AllNames : AllNames[i] = name

BundleSources == <<"sentinel1", "sentinel2", "gt">>
SourceCode(src) == CHOOSE i \in DOMAIN BundleSources : BundleSources[i] = src
SourceBands(src) ==
    CASE src = "sentinel1" -> <<"VV", "VH">>
      [] src = "sentinel2" -> <<"B04", "B03", "B02">>
      [] src = "gt"        -> <<"0">>

\* what a file may hold: a well-formed bundle, a ground truth with two time
\* steps, or a sentinel2 stack wider than the other stacks
Variants == {"ok", "gt_time2", "s2_wide"}

SourceShape(src, variant) ==
    CASE src = "gt" ->
            <<IF variant = "gt_time2" THEN 2 ELSE 1, 1, Height, Width>>
      [] src = "sentinel2" ->
            <<NTime, Len(SourceBands(src)), Height,
              IF variant = "s2_wide" THEN Width + 1 ELSE Width>>
      [] OTHER -> <<NTime, Len(SourceBands(src)), Height, Width>>

\* the stored array of a source: ground-truth classes 1..4, and for the other
\* sources values that identify the file, the source and the position
RawArray(name, src, variant) ==
    LET shape == SourceShape(src, variant)
    IN  Array(shape,
              [n \in 1..Product(shape) |->
                  IF src = "gt"
                  THEN 1 + ((n + FileCode(name)) % 4)
                  ELSE 10000 * SourceCode(src) + 100 * FileCode(name) + n])

\* a list object: identity and items
ListRef(id, items) == [id |-> id, items |-> items]

\* Subtile().load(path): a fresh bundle.  satellite_stack maps each source to
\* its array; tile_metadata.satellites maps each source to the address of a
\* fresh SatelliteMetadata object whose bands field is a fresh list.
Load(name) ==
    LET variant == disk[name]
        srcs == Range(BundleSources)
    IN  [satellite_stack |->
            [keys |-> BundleSources,
             map  |-> [s \in srcs |-> RawArray(name, s, variant)]],
         tile_metadata |->
            [satellites |->
                [keys |-> BundleSources,
                 map  |-> [s \in srcs |-> <<"bundle", s>>]]],
         heap |->
            [a \in {<<"bundle", s>> : s \in srcs} |->
                [bands |-> ListRef(a, SourceBands(a[2]))]]]

\* deepcopy(tile_metadata): fresh SatelliteMetadata objects and fresh lists
DeepCopyAddr(a) == <<"copy", a[2]>>
DeepCopy(meta, heap) ==
    LET olds == {meta.satellites.map[k] : k \in Range(meta.satellites.keys)}
    IN  [metadata |->
            [satellites |->
                [keys |-> meta.satellites.keys,
                 map  |-> [k \in Range(meta.satellites.keys) |->
                              DeepCopyAddr(meta.satellites.map[k])]]],
         heap |->
            [a \in DOMAIN heap \cup {DeepCopyAddr(o) : o \in olds} |->
                IF a \in DOMAIN heap THEN heap[a]
                ELSE LET o == CHOOSE o \in olds : DeepCopyAddr(o) = a
                     IN  [bands |-> ListRef(a, heap[o].bands.items)]]]

---------------------------------------------------------------------------
(* The transform collaborator: a callable on a mapping *)

\* reverse the elements of an array (a flip along every axis)
Flip(a) ==
    Array(a.shape, [n \in DOMAIN a.data |-> a.data[Len(a.data) + 1 - n]])

\* "flip_xy" reads and returns the entries "X" and "y"; "flip_input_label"
\* reads and returns the entries "input" and "label".  A missing entry raises
\* KeyError.
Transforms == {"flip_xy", "flip_input_label"}
TransformKeys(tr) ==
    IF tr = "flip_xy" THEN <<"X", "y">> ELSE <<"input", "label">>
ApplyTransform(tr, sample) ==
    LET ks == TransformKeys(tr)
    IN  IF Range(ks) \subseteq DOMAIN sample
        THEN [raised |-> "none",
              ret |-> [k \in Range(ks) |-> Flip(sample[k])]]
        ELSE [raised |-> "KeyError", ret |-> <<>>]

---------------------------------------------------------------------------
(* DSE: the call frame of __getitem__ and its steps *)

\* self, as the methods read it
Self == [tiles |-> tiles, selected_bands |-> selected_bands,
         transform |-> transform]

NoMetadata == [satellites |-> EmptyDict]

\* the locals of one __getitem__ call; raised is "none" until an exception
\* leaves the call
NewFrame(idx) ==
    [raised   |-> "none",
     message  |-> <<>>,
     idx      |-> idx,
     loaded   |-> <<>>,          \* the files the loader was asked for
     subtile  |-> [satellite_stack |-> EmptyDict, tile_metadata |-> NoMetadata],
     heap     |-> <<>>,          \* the SatelliteMetadata objects of the call
     stack    |-> EmptyDict,     \* satellite_stack of __select_bands
     metadata |-> NoMetadata,    \* new_metadata of __select_bands
     X        |-> EmptyList,
     y        |-> EmptyList,
     tcalls   |-> <<>>,          \* the calls made to self.transform
     ret      |-> NoneVal]

Raise(f, exc, msg) == [f EXCEPT !.raised = exc, !.message = msg]

\* __len__
DSELen(self) == Len(self.tiles)

\* mutant: a list that takes no negative index
ListGetItemNoWrap(list, idx) ==
    IF idx >= Len(list) \/ idx < 0
    THEN [raised |-> "IndexError", pos |-> 0]
    ELSE [raised |-> "none", pos |-> idx + 1]

\* list[idx] of a Python list: a negative idx counts from the end, and an idx
\* outside [-len, len) raises IndexError
ListGetItem(list, idx) ==
    LET n == Len(list)
    IN  IF idx >= n \/ idx < -n
        THEN [raised |-> "IndexError", pos |-> 0]
        ELSE [raised |-> "none", pos |-> IF idx < 0 THEN n + idx + 1 ELSE idx + 1]

\* line 164: subtile = Subtile().load(self.tiles[idx])
StepLoad(self, f) ==
    IF f.raised # "none" THEN f
    ELSE LET r == ListGetItem(self.tiles, f.idx)
         IN  IF r.raised # "none"
             THEN Raise(f, r.raised, <<"list index out of range">>)
             ELSE LET name == self.tiles[r.pos]
                      b == Load(name)
                  IN  [f EXCEPT !.loaded = Append(@, name),
                                !.subtile = [satellite_stack |-> b.satellite_stack,
                                             tile_metadata |-> b.tile_metadata],
                                !.heap = b.heap]

\* __select_indices: the positions in bands of the values that are in
\* selected_bands, in the order of bands
RECURSIVE SelectIndicesFrom(_, _, _)
SelectIndicesFrom(bands, selected, i) ==
    IF i > Len(bands) THEN <<>>
    ELSE (IF bands[i] \in Range(selected) THEN <<i - 1>> ELSE <<>>)
         \o SelectIndicesFrom(bands, selected, i + 1)
SelectIndices(bands, selected) == SelectIndicesFrom(bands, selected, 1)

\* one iteration of the loop of __select_bands (lines 126-136) for key;
\* acc holds raised, stack (selected_satellite_stack), sats
\* (new_metadata.satellites) and heap
SelectBandsBody(cfg, subtile, acc, key) ==
    IF ~DictHas(subtile.tile_metadata.satellites, key)
    THEN [acc EXCEPT !.raised = "KeyError", !.message = <<key>>]
    ELSE LET addr == subtile.tile_metadata.satellites.map[key]
             satellite_bands == acc.heap[addr].bands.items
             selected == ListRef(<<"config", key>>, cfg.map[key])
             indices == SelectIndices(satellite_bands, selected.items)
             \* line 130: the bundle's own object is stored, not a copy
             sats == DictSet(acc.sats, key, addr)
             \* line 131: assignment through subtile.tile_metadata
             heap == [acc.heap EXCEPT ![addr].bands = selected]
         IN  IF ~DictHas(subtile.satellite_stack, key)
             THEN [acc EXCEPT !.raised = "KeyError", !.message = <<key>>,
                              !.sats = sats, !.heap = heap]
             ELSE [acc EXCEPT
                     !.sats = sats,
                     !.heap = heap,
                     !.stack = DictSet(@, key,
                                 Take4(subtile.satellite_stack.map[key], indices))]

RECURSIVE SelectBandsLoop(_, _, _, _)
SelectBandsLoop(cfg, subtile, acc, i) ==
    IF i > Len(cfg.keys) \/ acc.raised # "none" THEN acc
    ELSE SelectBandsLoop(cfg, subtile,
                         SelectBandsBody(cfg, subtile, acc, cfg.keys[i]), i + 1)

\* mutant: the sources the config does not name pass through unfiltered
SelectBandsPassThrough(self, subtile, heap0) ==
    LET copy == DeepCopy(subtile.tile_metadata, heap0)
    IN  IF ~self.selected_bands.none
        THEN LET acc == SelectBandsLoop(self.selected_bands.val, subtile,
                            [raised |-> "none", message |-> <<>>,
                             stack |-> subtile.satellite_stack,
                             sats |-> copy.metadata.satellites,
                             heap |-> copy.heap], 1)
             IN  [raised |-> acc.raised, message |-> acc.message,
                  stack |-> acc.stack,
                  metadata |-> [satellites |-> acc.sats],
                  heap |-> acc.heap]
        ELSE [raised |-> "none", message |-> <<>>,
              stack |-> subtile.satellite_stack,
              metadata |-> copy.metadata,
              heap |-> copy.heap]

\* __select_bands (lines 122-140)
SelectBands(self, subtile, heap0) ==
    LET copy == DeepCopy(subtile.tile_metadata, heap0)
    IN  IF ~self.selected_bands.none
        THEN LET acc == SelectBandsLoop(self.selected_bands.val, subtile,
                            [raised |-> "none", message |-> <<>>,
                             stack |-> EmptyDict, sats |-> EmptyDict,
                             heap |-> copy.heap], 1)
             IN  [raised |-> acc.raised, message |-> acc.message,
                  stack |-> acc.stack,
                  metadata |-> [satellites |-> acc.sats],
                  heap |-> acc.heap]
        ELSE [raised |-> "none", message |-> <<>>,
              stack |-> subtile.satellite_stack,
              metadata |-> copy.metadata,
              heap |-> copy.heap]

\* line 168
StepSelectBands(self, f) ==
    IF f.raised # "none" THEN f
    ELSE LET r == SelectBands(self, f.subtile, f.heap)
         IN  [f EXCEPT !.raised = r.raised, !.message = r.message,
                       !.stack = r.stack, !.metadata = r.metadata,
                       !.heap = r.heap]

\* mutant: the bands vary slower than the time steps on the new axis
AggregateTimeBandMajor(img) ==
    LET T == img.shape[1]
        B == img.shape[2]
        H == img.shape[3]
        W == img.shape[4]
    IN  Array(<<T * B, H, W>>,
              [n \in 1..(T * B * H * W) |->
                  LET m == n - 1
                      r == m \div (H * W)
                  IN  At4(img, r % T, r \div T, (m \div W) % H, m % W)])

\* __aggregate_time (lines 79-81)
AggregateTime(img) ==
    Reshape(img, <<img.shape[1] * img.shape[2], img.shape[3], img.shape[4]>>)

\* the loop of lines 175-181 over satellite_stack.items(), from position i
RECURSIVE StackLoop(_, _, _)
StackLoop(stack, acc, i) ==
    IF i > Len(stack.keys) \/ acc.raised # "none" THEN acc
    ELSE LET satellite_type == stack.keys[i]
             agg == AggregateTime(stack.map[satellite_type])
         IN  IF satellite_type = "gt" THEN StackLoop(stack, acc, i + 1)
             ELSE IF acc.X.shape[1] = 0
             THEN StackLoop(stack, [acc EXCEPT !.X = agg], i + 1)
             ELSE IF ~ConcatenateOk(acc.X, agg)
             THEN [acc EXCEPT !.raised = "ValueError"]
             ELSE StackLoop(stack, [acc EXCEPT !.X = Concatenate(@, agg)], i + 1)

\* lines 167-187: y = satellite_stack["gt"] of the subtile, the stacking loop
\* and the squeeze of y
StepAssemble(f) ==
    IF f.raised # "none" THEN f
    ELSE IF ~DictHas(f.subtile.satellite_stack, "gt")
    THEN Raise(f, "KeyError", <<"gt">>)
    ELSE LET y == f.subtile.satellite_stack.map["gt"]
             acc == StackLoop(f.stack, [raised |-> "none", X |-> EmptyList], 1)
         IN  IF acc.raised # "none"
             THEN Raise(f, acc.raised, <<"concatenate">>)
             ELSE IF ~SqueezeOk(y)
             THEN Raise([f EXCEPT !.X = acc.X], "ValueError", <<"squeeze">>)
             ELSE [f EXCEPT !.X = acc.X, !.y = Squeeze0(y)]

\* mutant: the label is shifted before the transform sees it
StepTransformShifted(self, f) ==
    IF f.raised # "none" \/ self.transform.none THEN f
    ELSE LET sample == [X |-> f.X, y |-> MinusOne(f.y)]
             r == ApplyTransform(self.transform.val, sample)
             g == [f EXCEPT !.tcalls = Append(@, [arg |-> sample, res |-> r])]
         IN  IF r.raised # "none" THEN Raise(g, r.raised, <<"transform">>)
             ELSE IF ~({"X", "y"} \subseteq DOMAIN r.ret)
             THEN Raise(g, "KeyError", <<"X">>)
             ELSE [g EXCEPT !.X = r.ret["X"], !.y = r.ret["y"]]

\* lines 192-194
StepTransform(self, f) ==
    IF f.raised # "none" \/ self.transform.none THEN f
    ELSE LET sample == [X |-> f.X, y |-> f.y]
             r == ApplyTransform(self.transform.val, sample)
             g == [f EXCEPT !.tcalls = Append(@, [arg |-> sample, res |-> r])]
         IN  IF r.raised # "none" THEN Raise(g, r.raised, <<"transform">>)
             ELSE IF ~({"X", "y"} \subseteq DOMAIN r.ret)
             THEN Raise(g, "KeyError", <<"X">>)
             ELSE [g EXCEPT !.X = r.ret["X"], !.y = r.ret["y"]]

\* line 196
StepReturn(f) ==
    IF f.raised # "none" THEN f
    ELSE [f EXCEPT !.ret = Some([X |-> f.X, y |-> MinusOne(f.y),
                                 metadata |-> f.metadata])]

\* __getitem__ (lines 164-196)
GetItem(self, idx) ==
    StepReturn(StepTransform(self,
        StepAssemble(StepSelectBands(self, StepLoad(self, NewFrame(idx))))))

---------------------------------------------------------------------------
(* find_subtile: the pattern Tile(\d+)_(\d+)_(\d+).npz, int() and the scan *)

DigitChars == <<"0", "1", "2", "3", "4", "5", "6", "7", "8", "9">>
IsDigit(c) == c \in Range(DigitChars)
DigitVal(c) == (CHOOSE i \in DOMAIN DigitChars : DigitChars[i] = c) - 1

\* the literal lit stands in s at position p
HasAt(s, p, lit) ==
    /\ p >= 1
    /\ p + Len(lit) - 1 <= Len(s)
    /\ SubSeq(s, p, p + Len(lit) - 1) = lit

\* \d+ at position p taking exactly n characters
DigitsAt(s, p, n) ==
    /\ n >= 1
    /\ p + n - 1 <= Len(s)
    /\ \A q \in p..(p + n - 1) : IsDigit(s[q])

\* the lengths \d+ may take at position q when lit must follow it
GroupLengths(s, q, lit) ==
    {n \in 1..Len(s) : DigitsAt(s, q, n) /\ HasAt(s, q + n, lit)}

\* the lengths the last \d+ may take at position q: the dot takes any one
\* character but a newline, and npz follows it
LastGroupLengths(s, q) ==
    {n \in 1..Len(s) :
        /\ DigitsAt(s, q, n)
        /\ q + n <= Len(s) /\ s[q + n] # "\n"
        /\ HasAt(s, q + n + 1, <<"n", "p", "z">>)}

\* the ways the pattern matches s from position p: the lengths the three
\* groups take
MatchesAt(s, p) ==
    IF ~HasAt(s, p, <<"T", "i", "l", "e">>) THEN {}
    ELSE UNION {UNION {{<<n1, n2, n3>> :
                            n3 \in LastGroupLengths(s, p + 4 + n1 + 1 + n2 + 1)}
                       : n2 \in GroupLengths(s, p + 4 + n1 + 1, <<"_">>)}
                : n1 \in GroupLengths(s, p + 4, <<"_">>)}

\* the match the backtracking engine reports: each group greedy, the earlier
\* group first
GreedyMatch(ms) ==
    CHOOSE m \in ms : \A o \in ms :
        \/ m[1] > o[1]
        \/ m[1] = o[1] /\ m[2] > o[2]
        \/ m[1] = o[1] /\ m[2] = o[2] /\ m[3] >= o[3]

\* pattern.search(name): None, or the three groups of the leftmost match
PatternSearch(s) ==
    LET starts == {p \in 1..Len(s) : MatchesAt(s, p) # {}}
    IN  IF starts = {} THEN NoneVal
        ELSE LET p == CHOOSE q \in starts : \A o \in starts : q <= o
                 m == GreedyMatch(MatchesAt(s, p))
                 p1 == p + 4
                 p2 == p1 + m[1] + 1
                 p3 == p2 + m[2] + 1
             IN  Some(<<SubSeq(s, p1, p1 + m[1] - 1),
                        SubSeq(s, p2, p2 + m[2] - 1),
                        SubSeq(s, p3, p3 + m[3] - 1)>>)

\* int(digits)
RECURSIVE ParseInt(_)
ParseInt(ds) ==
    IF ds = <<>> THEN 0
    ELSE 10 * ParseInt(SubSeq(ds, 1, Len(ds) - 1)) + DigitVal(ds[Len(ds)])

\* str(n), as the f-string formats an int
RECURSIVE StrNat(_)
StrNat(n) ==
    IF n < 10 THEN <<DigitChars[n + 1]>>
    ELSE StrNat(n \div 10) \o <<DigitChars[(n % 10) + 1]>>
StrInt(n) == IF n < 0 THEN <<"-">> \o StrNat(-n) ELSE StrNat(n)

\* f'Could not find Tile{tile_id}_{i}_{j}.npz in the dataset'
NotFoundMessage(tile_id, i, j) ==
    <<"Could not find ">>
    \o <<"T", "i", "l", "e">> \o StrInt(tile_id) \o <<"_">> \o StrInt(i)
    \o <<"_">> \o StrInt(j) \o Npz
    \o <<" in the dataset">>

\* the loop of lines 217-221 from position k (1-based): the first position
\* whose name reads as the triple, AttributeError at a name the pattern does
\* not match, or line 224
RECURSIVE FindScan(_, _, _, _, _)
FindScan(self, tile_id, i, j, k) ==
    IF k > Len(self.tiles)
    THEN [raised |-> "ValueError", message |-> NotFoundMessage(tile_id, i, j),
          k |-> 0]
    ELSE LET result == PatternSearch(self.tiles[k])
         IN  IF result.none
             THEN [raised |-> "AttributeError", message |-> <<"group">>, k |-> 0]
             ELSE IF /\ tile_id = ParseInt(result.val[1])
                     /\ i = ParseInt(result.val[2])
                     /\ j = ParseInt(result.val[3])
             THEN [raised |-> "none", message |-> <<>>, k |-> k - 1]
             ELSE FindScan(self, tile_id, i, j, k + 1)

\* find_subtile (lines 215-224): line 222 is __getitem__(k)
FindSubtile(self, tile_id, i, j) ==
    LET r == FindScan(self, tile_id, i, j, 1)
    IN  IF r.raised # "none" THEN Raise(NewFrame(0), r.raised, r.message)
        ELSE GetItem(self, r.k)

---------------------------------------------------------------------------
(* A single caller: one action per public operation *)

NoCall == [op |-> "none", args |-> <<>>, frame |-> NewFrame(0), len |-> 0]

\* the indices, tile ids and coordinates a caller passes
CallIndices == (-(Len(tiles) + 1))..Len(tiles)
CallIds == 1..2
CallCoords == 0..1

GetItemCall(idx) ==
    /\ last.op = "none"
    /\ last' = [op |-> "getitem", args |-> <<idx>>,
                frame |-> GetItem(Self, idx), len |-> 0]
    /\ UNCHANGED <<tiles, selected_bands, transform, disk, workers>>

FindSubtileCall(tile_id, i, j) ==
    /\ last.op = "none"
    /\ last' = [op |-> "find_subtile", args |-> <<tile_id, i, j>>,
                frame |-> FindSubtile(Self, tile_id, i, j), len |-> 0]
    /\ UNCHANGED <<tiles, selected_bands, transform, disk, workers>>

LenCall ==
    /\ last.op = "none"
    /\ last' = [op |-> "len", args |-> <<>>, frame |-> NewFrame(0),
                len |-> DSELen(Self)]
    /\ UNCHANGED <<tiles, selected_bands, transform, disk, workers>>

\* the caller is done with what the call gave it and may call again
Discard ==
    /\ last.op # "none"
    /\ last' = NoCall
    /\ UNCHANGED <<tiles, selected_bands, transform, disk, workers>>

Next ==
    \/ \E idx \in CallIndices : GetItemCall(idx)
    \/ \E tile_id \in CallIds, i, j \in CallCoords : FindSubtileCall(tile_id, i, j)
    \/ LenCall
    \/ Discard

\* the selection configs: None, or a dict over the key orders below whose
\* values are band lists of at most MaxSel names of the source
ConfigBands(key) ==
    IF key = "landsat" THEN {"B1"} ELSE Range(SourceBands(key))
KeyOrders ==
    { <<>>, <<"sentinel1">>, <<"sentinel2">>, <<"gt">>, <<"landsat">>,
      <<"sentinel2", "sentinel1">>, <<"sentinel1", "gt">>, <<"gt", "sentinel2">> }
ConfigsOver(ks) ==
    {[keys |-> ks, map |-> m] :
        m \in [Range(ks) -> UNION {SeqsUpTo(ConfigBands(k), MaxSel) : k \in Range(ks)}]}
Configs ==
    UNION {{c \in ConfigsOver(ks) :
                \A k \in Range(ks) : Range(c.map[k]) \subseteq ConfigBands(k)}
           : ks \in KeyOrders}

\* __init__: one enumerated file; any selection config, transform and file
\* content
Init ==
    /\ tiles = <<AllNames[1]>>
    /\ selected_bands \in {NoneVal} \cup {Some(c) : c \in Configs}
    /\ transform \in {NoneVal} \cup {Some(t) : t \in Transforms}
    /\ disk \in [Range(tiles) -> Variants]
    /\ last = NoCall
    /\ workers = <<>>

Spec == Init /\ [][Next]_vars

\* __init__ for the lookup: any enumeration of up to MaxTiles files
LookupConfigs ==
    {NoneVal, Some(DictFromPairs(<< <<"sentinel1", <<"VH">>>> >>))}
InitLookup ==
    /\ tiles \in DistinctSeqsUpTo(FileNames, MaxTiles)
    /\ selected_bands \in LookupConfigs
    /\ transform = NoneVal
    /\ disk = [n \in Range(tiles) |-> "ok"]
    /\ last = NoCall
    /\ workers = <<>>

LookupSpec == InitLookup /\ [][Next]_vars

---------------------------------------------------------------------------
(* Several callers at once: each call advances one step at a time.  Every  *)
(* step reads self when it runs; the locals of a call are its frame.       *)

Workers == 1..NWorkers

\* worker w calls on the file at position w - 1, by index or by identifier
WorkerNames == <<AllNames[1], AllNames[2], AllNames[4]>>
WorkerTriples == << <<1, 0, 0>>, <<1, 0, 1>>, <<2, 1, 0>> >>

IdleWorker ==
    [pc |-> "idle", op |-> "none", args |-> <<>>, frame |-> NewFrame(0),
     self0 |-> Self, overlapped |-> FALSE]

Busy(w) == workers[w].pc \notin {"idle", "done"}

Advance(w, f, pc) ==
    workers' = [workers EXCEPT ![w].frame = f,
                               ![w].pc = IF f.raised # "none" THEN "done" ELSE pc]

WCallGetItem(w) ==
    /\ workers[w].pc = "idle"
    /\ workers' = [workers EXCEPT ![w] =
            [pc |-> "load", op |-> "getitem", args |-> <<w - 1>>,
             frame |-> NewFrame(w - 1), self0 |-> Self,
             overlapped |-> \E o \in Workers \ {w} : Busy(o)]]
    /\ UNCHANGED <<tiles, selected_bands, transform, disk, last>>

WCallFindSubtile(w) ==
    /\ workers[w].pc = "idle"
    /\ workers' = [workers EXCEPT ![w] =
            [pc |-> "scan", op |-> "find_subtile", args |-> WorkerTriples[w],
             frame |-> NewFrame(0), self0 |-> Self,
             overlapped |-> \E o \in Workers \ {w} : Busy(o)]]
    /\ UNCHANGED <<tiles, selected_bands, transform, disk, last>>

\* lines 217-222 up to the call of __getitem__
WScan(w) ==
    /\ workers[w].pc = "scan"
    /\ LET a == workers[w].args
           r == FindScan(Self, a[1], a[2], a[3], 1)
       IN  Advance(w, IF r.raised # "none"
                      THEN Raise(NewFrame(0), r.raised, r.message)
                      ELSE NewFrame(r.k), "load")
    /\ UNCHANGED <<tiles, selected_bands, transform, disk, last>>

\* line 164
WLoad(w) ==
    /\ workers[w].pc = "load"
    /\ Advance(w, StepLoad(Self, workers[w].frame), "select")
    /\ UNCHANGED <<tiles, selected_bands, transform, disk, last>>

\* mutant: __select_bands writes the band lists, in stored order, back into
\* self.selected_bands
StoredOrder(src, selected) ==
    LET indices == SelectIndices(SourceBands(src), selected)
    IN  [i \in DOMAIN indices |-> SourceBands(src)[indices[i] + 1]]
WSelectBandsWritesConfig(w) ==
    /\ workers[w].pc = "select"
    /\ Advance(w, StepSelectBands(Self, workers[w].frame), "assemble")
    /\ selected_bands' =
          IF selected_bands.none THEN selected_bands
          ELSE Some([selected_bands.val EXCEPT
                        !.map = [k \in DOMAIN @ |-> StoredOrder(k, @[k])]])
    /\ UNCHANGED <<tiles, transform, disk, last>>

\* line 168: __select_bands assigns to locals and to the loaded subtile only
WSelectBands(w) ==
    /\ workers[w].pc = "select"
    /\ Advance(w, StepSelectBands(Self, workers[w].frame), "assemble")
    /\ UNCHANGED <<tiles, selected_bands, transform, disk, last>>

\* lines 169-187
WAssemble(w) ==
    /\ workers[w].pc = "assemble"
    /\ Advance(w, StepAssemble(workers[w].frame), "transform")
    /\ UNCHANGED <<tiles, selected_bands, transform, disk, last>>

\* lines 192-194
WTransform(w) ==
    /\ workers[w].pc = "transform"
    /\ Advance(w, StepTransform(Self, workers[w].frame), "return")
    /\ UNCHANGED <<tiles, selected_bands, transform, disk, last>>

\* line 196
WReturn(w) ==
    /\ workers[w].pc = "return"
    /\ workers' = [workers EXCEPT
            ![w].frame = StepReturn(workers[w].frame),
            ![w].pc = "done",
            ![w].overlapped = @ \/ \E o \in Workers \ {w} : Busy(o)]
    /\ UNCHANGED <<tiles, selected_bands, transform, disk, last>>

\* the worker is done with the sample and may call again
WDiscard(w) ==
    /\ workers[w].pc = "done"
    /\ workers' = [workers EXCEPT ![w] = IdleWorker]
    /\ UNCHANGED <<tiles, selected_bands, transform, disk, last>>

WorkersNext ==
    \E w \in Workers :
        \/ WCallGetItem(w)
        \/ WCallFindSubtile(w)
        \/ WScan(w)
        \/ WLoad(w)
        \/ WSelectBands(w)
        \/ WAssemble(w)
        \/ WTransform(w)
        \/ WReturn(w)
        \/ WDiscard(w)

WorkerConfigs ==
    { NoneVal,
      Some(DictFromPairs(<< <<"sentinel1", <<"VH", "VV">>>> >>)),
      Some(DictFromPairs(<< <<"sentinel2", <<"B02">>>>,
                            <<"sentinel1", <<"VH">>>> >>)) }

InitWorkers ==
    /\ tiles = SubSeq(WorkerNames, 1, NWorkers)
    /\ selected_bands \in WorkerConfigs
    /\ transform \in {NoneVal, Some("flip_xy")}
    /\ disk = [n \in Range(tiles) |-> "ok"]
    /\ last = NoCall
    /\ workers = [w \in Workers |-> IdleWorker]

WorkersSpec == InitWorkers /\ [][WorkersNext]_vars

---------------------------------------------------------------------------
(* Vocabulary of the properties *)

\* the last call was __getitem__ / it returned a sample
IsGetItem == last.op = "getitem"
Returned == last.frame.raised = "none" /\ ~last.frame.ret.none
Sample == last.frame.ret.val

\* the array the loader gave for a source, and its shape
Raw(src) == last.frame.subtile.satellite_stack.map[src]

\* the band list the returned metadata holds for a source
ReturnedBands(src) ==
    last.frame.heap[last.frame.metadata.satellites.map[src]].bands.items

\* the band list the bundle's own metadata holds for a source after the call
BundleBands(src) ==
    last.frame.heap[last.frame.subtile.tile_metadata.satellites.map[src]].bands.items

\* position (0-based) of a band name in the stored band list of a source
BandPos(src, band) ==
    (CHOOSE p \in DOMAIN SourceBands(src) : SourceBands(src)[p] = band) - 1

IsSublist(L, src) ==
    /\ Range(L) \subseteq Range(SourceBands(src))
    /\ \A a, b \in DOMAIN L : a # b => L[a] # L[b]

\* the increasing sequence of the members of a finite set of numbers
Sorted(P) ==
    CHOOSE q \in [1..Cardinality(P) -> P] :
        \A a, b \in 1..Cardinality(P) : a < b => q[a] < q[b]

\* the positions of the bands of a source that the call keeps, increasing
Kept(src) ==
    IF selected_bands.none
    THEN [p \in DOMAIN SourceBands(src) |-> p - 1]
    ELSE Sorted({p \in 0..(Len(SourceBands(src)) - 1) :
                    SourceBands(src)[p + 1] \in Range(selected_bands.val.map[src])})

\* the non-label sources in the order the call iterates over them
NotGt(k) == k # "gt"
IterationOrder ==
    SelectSeq(IF selected_bands.none THEN BundleSources
              ELSE selected_bands.val.keys, NotGt)

\* rows a source gives the input array, and the row its block starts at
RowsOf(src) == Raw(src).shape[1] * Len(Kept(src))
RECURSIVE RowsBefore(_, _)
RowsBefore(order, i) ==
    IF i <= 1 THEN 0 ELSE RowsBefore(order, i - 1) + RowsOf(order[i - 1])

---------------------------------------------------------------------------
(* Properties of the assembled sample *)

\* C1 (as claimed): when the config maps source S to a list L of distinct
\* band names of S, the returned metadata's band list for S is L, the
\* filtered array of S has Len(L) bands, and its band k holds the data of
\* band L[k].
C1_BandOrderAgrees ==
    (IsGetItem /\ Returned /\ ~selected_bands.none) =>
        \A S \in Range(selected_bands.val.keys) :
            LET L == selected_bands.val.map[S]
                filtered == last.frame.stack.map[S]
            IN  IsSublist(L, S) =>
                    /\ ReturnedBands(S) = L
                    /\ filtered.shape[2] = Len(L)
                    /\ \A k \in DOMAIN L :
                       \A t \in 0..(filtered.shape[1] - 1) :
                       \A y \in 0..(filtered.shape[3] - 1) :
                       \A x \in 0..(filtered.shape[4] - 1) :
                            At4(filtered, t, k - 1, y, x)
                                = At4(Raw(S), t, BandPos(S, L[k]), y, x)

\* C5 (as claimed): with no transform the returned label has shape
\* (height, width) and holds the raw ground truth minus 1.
C5_LabelHeightWidth ==
    (IsGetItem /\ Returned /\ transform.none) =>
        /\ Sample.y.shape = <<Raw("gt").shape[3], Raw("gt").shape[4]>>
        /\ \A n \in DOMAIN Sample.y.data : Sample.y.data[n] = Raw("gt").data[n] - 1

\* C5 (amended): with no transform the returned label is the ground-truth
\* array without its time axis, shape (bands, height, width), and its value at
\* (b, y, x) is the raw ground-truth value at (0, b, y, x) minus 1.
C5_LabelShift ==
    (IsGetItem /\ Returned /\ transform.none) =>
        /\ Sample.y.shape = Tail(Raw("gt").shape)
        /\ \A b \in 0..(Raw("gt").shape[2] - 1) :
           \A y \in 0..(Raw("gt").shape[3] - 1) :
           \A x \in 0..(Raw("gt").shape[4] - 1) :
                /\ At3(Sample.y, b, y, x) = At4(Raw("gt"), 0, b, y, x) - 1
                /\ At3(Sample.y, b, y, x) + 1 = At4(Raw("gt"), 0, b, y, x)

C5_Witness ==
    /\ IsGetItem /\ Returned /\ transform.none
    /\ Sample.y.shape = <<1, Height, Width>>
    /\ \E n \in DOMAIN Sample.y.data : Sample.y.data[n] = 0

\* C8: with no transform the returned input array holds, for each non-label
\* source in iteration order, a block of time * kept-bands rows in which row
\* t * kept + k is the image of time t and of the k-th kept band; its
\* first-axis length is the sum of the blocks.
C8_InputLayout ==
    (IsGetItem /\ Returned /\ transform.none) =>
        LET order == IterationOrder
            X == Sample.X
        IN  /\ X.shape[1] = RowsBefore(order, Len(order) + 1)
            /\ Len(X.data) = Product(X.shape)
            /\ \A i \in DOMAIN order :
                 LET S == order[i]
                     kept == Kept(S)
                 IN  \A t \in 0..(Raw(S).shape[1] - 1) :
                     \A k \in 0..(Len(kept) - 1) :
                     \A y \in 0..(Raw(S).shape[3] - 1) :
                     \A x \in 0..(Raw(S).shape[4] - 1) :
                        At3(X, RowsBefore(order, i) + t * Len(kept) + k, y, x)
                            = At4(Raw(S), t, kept[k + 1], y, x)

C8_Witness ==
    /\ IsGetItem /\ Returned /\ transform.none /\ ~selected_bands.none
    /\ Len(IterationOrder) = 2
    /\ \A i \in DOMAIN IterationOrder :
          Len(Kept(IterationOrder[i])) = 2 /\ Raw(IterationOrder[i]).shape[1] >= 2
    /\ Sample.X.shape[1] = 4 * NTime

\* C9 (as claimed): after band selection with a config, the bundle's own
\* metadata still holds every source's stored band list, and the returned
\* metadata refers to no object of the bundle's metadata.
C9_CopyOnFilter ==
    (IsGetItem /\ Returned /\ ~selected_bands.none) =>
        /\ \A S \in Range(BundleSources) : BundleBands(S) = SourceBands(S)
        /\ \A S \in Range(last.frame.metadata.satellites.keys) :
           \A R \in Range(last.frame.subtile.tile_metadata.satellites.keys) :
                last.frame.metadata.satellites.map[S]
                    # last.frame.subtile.tile_metadata.satellites.map[R]

\* the call with the same index on the same dataset without its transform
WithoutTransform ==
    GetItem([Self EXCEPT !.transform = NoneVal], last.args[1])

\* C6 (as claimed): a configured transform is invoked exactly once with a
\* mapping whose entries are "input" (the assembled input array) and "label"
\* (the ground truth without its time axis, not shifted).
C6_TransformInputLabel ==
    (IsGetItem /\ ~transform.none /\ WithoutTransform.raised = "none") =>
        /\ Len(last.frame.tcalls) = 1
        /\ DOMAIN last.frame.tcalls[1].arg = {"input", "label"}
        /\ last.frame.tcalls[1].arg["input"] = WithoutTransform.ret.val.X
        /\ last.frame.tcalls[1].arg["label"].data = Raw("gt").data

\* C6 (amended): a configured transform is invoked exactly once by a call
\* whose index resolves and whose bundle assembles, and not at all by a call
\* that fails before; the mapping it gets has the entries "X" (the assembled
\* input array) and "y" (the ground truth without its time axis, not
\* shifted); the call returns the "X" entry of the mapping the transform
\* returned and its "y" entry decremented by 1.
C6_TransformXY ==
    (IsGetItem /\ ~transform.none) =>
        IF WithoutTransform.raised = "none"
        THEN /\ Len(last.frame.tcalls) = 1
             /\ DOMAIN last.frame.tcalls[1].arg = {"X", "y"}
             /\ last.frame.tcalls[1].arg["X"] = WithoutTransform.ret.val.X
             /\ last.frame.tcalls[1].arg["y"].shape = Tail(Raw("gt").shape)
             /\ last.frame.tcalls[1].arg["y"].data = Raw("gt").data
             /\ Returned =>
                  LET out == last.frame.tcalls[1].res.ret
                  IN  /\ Sample.X = out["X"]
                      /\ Sample.y.shape = out["y"].shape
                      /\ \A n \in DOMAIN out["y"].data :
                            Sample.y.data[n] = out["y"].data[n] - 1
        ELSE last.frame.tcalls = <<>>

C6_Witness ==
    /\ IsGetItem /\ ~transform.none /\ Returned
    /\ Len(last.frame.tcalls) = 1
    /\ Sample.X # WithoutTransform.ret.val.X
    /\ Sample.y # WithoutTransform.ret.val.y

\* how many elements of an array are values of the stored array of a source
CountFrom(X, src) ==
    Cardinality({n \in DOMAIN X.data : X.data[n] \in Range(Raw(src).data)})

\* the elements a source gives the input array under the config
ElementsOf(src) ==
    IF src \in Range(selected_bands.val.keys)
    THEN RowsOf(src) * Raw(src).shape[3] * Raw(src).shape[4]
    ELSE 0

NonLabelSources == Range(BundleSources) \ {"gt"}

\* the part of C10 that holds as claimed: with a config, a non-label source
\* is in the returned metadata exactly if it is a key of the config, the
\* input array (no transform) holds the kept elements of the sources that are
\* keys and nothing else, and the label (no transform) is the whole ground
\* truth, shifted
C10_SourcesAndLabel ==
    /\ \A S \in NonLabelSources :
          /\ DictHas(Sample.metadata.satellites, S)
                <=> S \in Range(selected_bands.val.keys)
          /\ transform.none => CountFrom(Sample.X, S) = ElementsOf(S)
    /\ transform.none =>
          /\ \A n \in DOMAIN Sample.X.data :
                \E S \in NonLabelSources \cap Range(selected_bands.val.keys) :
                    Sample.X.data[n] \in Range(Raw(S).data)
          /\ Len(Sample.y.data) = Len(Raw("gt").data)
          /\ \A n \in DOMAIN Sample.y.data :
                Sample.y.data[n] = Raw("gt").data[n] - 1

\* C10 (as claimed): ... and the ground-truth entry is kept in the returned
\* metadata, unfiltered, whether or not the config names the ground truth.
C10_GroundTruthAlwaysKept ==
    (IsGetItem /\ Returned /\ ~selected_bands.none) =>
        /\ C10_SourcesAndLabel
        /\ DictHas(Sample.metadata.satellites, "gt")
        /\ ReturnedBands("gt") = SourceBands("gt")

\* C10 (amended): ... and the ground-truth entry is in the returned metadata
\* exactly if the config names the ground truth, and then with the band list
\* the config gives it.
C10_GroundTruthAsConfigured ==
    (IsGetItem /\ Returned /\ ~selected_bands.none) =>
        /\ C10_SourcesAndLabel
        /\ DictHas(Sample.metadata.satellites, "gt")
                <=> "gt" \in Range(selected_bands.val.keys)
        /\ "gt" \in Range(selected_bands.val.keys) =>
                ReturnedBands("gt") = selected_bands.val.map["gt"]

C10_Witness ==
    /\ IsGetItem /\ Returned /\ ~selected_bands.none /\ transform.none
    /\ selected_bands.val.keys = <<"sentinel1">>
    /\ Sample.metadata.satellites.keys = <<"sentinel1">>
    /\ CountFrom(Sample.X, "sentinel1") > 0
    /\ CountFrom(Sample.X, "sentinel2") = 0
    /\ Len(Sample.y.data) = Height * Width

---------------------------------------------------------------------------
(* Properties of the positional accessor's bounds and of find_subtile *)

\* C4 (as claimed): __getitem__ with an index outside [0, len) ends in
\* IndexError, loads no file and returns no sample.
C4_BoundsZeroToLen ==
    (IsGetItem /\ last.args[1] \notin 0..(Len(tiles) - 1)) =>
        /\ last.frame.raised = "IndexError"
        /\ last.frame.loaded = <<>>
        /\ last.frame.ret.none

\* C4 (amended): __getitem__ resolves exactly the indices in [-len, len), a
\* negative index idx to the file at position len + idx, and loads that
\* file; with an index outside [-len, len) it ends in IndexError, loads no
\* file and returns no sample.
C4_BoundsOfList ==
    IsGetItem =>
        LET n == Len(tiles)
            idx == last.args[1]
        IN  IF idx \in (-n)..(n - 1)
            THEN /\ last.frame.raised # "IndexError"
                 /\ last.frame.loaded = <<tiles[(IF idx < 0 THEN n + idx ELSE idx) + 1]>>
            ELSE /\ last.frame.raised = "IndexError"
                 /\ last.frame.loaded = <<>>
                 /\ last.frame.ret.none

C4_Witness ==
    /\ IsGetItem
    /\ Len(tiles) = 2
    /\ last.args[1] = -3
    /\ last.frame.raised = "IndexError"

\* the name Tile{tile_id}_{i}_{j}.npz
TileFileName(tile_id, i, j) == TileName(StrInt(tile_id), StrInt(i), StrInt(j))

\* the pattern and int() read the triple out of the name
ParsesTo(name, tile_id, i, j) ==
    LET r == PatternSearch(name)
    IN  /\ ~r.none
        /\ ParseInt(r.val[1]) = tile_id
        /\ ParseInt(r.val[2]) = i
        /\ ParseInt(r.val[3]) = j

IsFind == last.op = "find_subtile"

\* C2 (as claimed): when a file named Tile{tile_id}_{i}_{j}.npz is
\* enumerated, and no other enumerated name reads as the same triple,
\* find_subtile(tile_id, i, j) returns the sample __getitem__ returns for the
\* index of that file, whatever names precede it.
C2_LookupReturnsIndexed ==
    IsFind =>
        \A p \in DOMAIN tiles :
            (/\ tiles[p] = TileFileName(last.args[1], last.args[2], last.args[3])
             /\ \A q \in DOMAIN tiles \ {p} :
                    ~ParsesTo(tiles[q], last.args[1], last.args[2], last.args[3]))
            => /\ last.frame.raised = GetItem(Self, p - 1).raised
               /\ last.frame.ret = GetItem(Self, p - 1).ret

\* C3 (as claimed): find_subtile with a triple that no enumerated name reads
\* as ends in the ValueError whose message names the triple.
C3_LookupFailure ==
    (IsFind /\ \A p \in DOMAIN tiles :
                    ~ParsesTo(tiles[p], last.args[1], last.args[2], last.args[3]))
        => /\ last.frame.raised = "ValueError"
           /\ last.frame.message
                = NotFoundMessage(last.args[1], last.args[2], last.args[3])
           /\ last.frame.ret.none

---------------------------------------------------------------------------
(* Property of concurrent calls *)

\* the call of worker w run alone on the dataset as it was when the call began
Alone(w) ==
    IF workers[w].op = "getitem"
    THEN GetItem(workers[w].self0, workers[w].args[1])
    ELSE FindSubtile(workers[w].self0, workers[w].args[1],
                     workers[w].args[2], workers[w].args[3])

ConfigUnchanged ==
    /\ tiles' = tiles
    /\ selected_bands' = selected_bands
    /\ transform' = transform

\* C7: however the steps of the workers' calls interleave, each finished call
\* ends as it ends when run alone (same sample or same exception), and no
\* step changes self.tiles, self.selected_bands or self.transform.
C7_Isolation ==
    /\ [](\A w \in Workers :
            workers[w].pc = "done" =>
                /\ workers[w].frame.raised = Alone(w).raised
                /\ workers[w].frame.ret = Alone(w).ret)
    /\ [][ConfigUnchanged]_vars

C7_Witness ==
    \E v, w \in Workers :
        /\ v # w
        /\ workers[v].pc = "done" /\ workers[w].pc = "done"
        /\ workers[v].overlapped /\ workers[w].overlapped
        /\ workers[v].op = "getitem" /\ workers[w].op = "find_subtile"
        /\ ~workers[v].frame.ret.none /\ ~workers[w].frame.ret.none
        /\ workers[v].frame.ret # workers[w].frame.ret
        /\ ~selected_bands.none /\ ~transform.none

=============================================================================
